---- MODULE Spec2Model ----
(***************************************************************************)
(* Model of the Esprit Connect job scraper (src/esprit_job_scraper.py and  *)
(* src/run_scraper.py): the sequential walk over job IDs, its stop         *)
(* conditions, the persisted cursor (scraper_state.json), the raw-records  *)
(* file (data/jobs_raw.json) and the duplicate set, over several runs.     *)
(***************************************************************************)
EXTENDS Integers, Sequences, FiniteSets, TLC

(***************************************************************************)
(* Bounds of the model.                                                    *)
(***************************************************************************)
\* number of job IDs, from initial_job_id upwards, whose page the site may serve
NumIds == 3
\* number of program runs in one behaviour
MaxRuns == 3
\* largest --max-jobs value given to run_scraper.py
MaxJobs == 4

(***************************************************************************)
(* Program constants.                                                      *)
(***************************************************************************)
initial_job_id == 795
\* max_jobs passed by esprit_job_scraper.main
MainMaxJobs == 200
\* minimum trimmed description length of a non-empty job
MinDescriptionLen == 20

VARIABLES
    site,              \* the origin site: the page navigating to /jobs/{id} yields
    state_file,        \* scraper_state.json
    raw_file,          \* data/jobs_raw.json
    cwd_raw_file,      \* jobs_raw.json in the working directory (read only)
    pc,                \* position of the running program
    entry,             \* which main() started the run
    max_jobs,          \* quota of the run
    current_job_id,    \* self.current_job_id
    start_id,          \* start_id of scrape_jobs
    jobs_scraped,      \* self.jobs_scraped
    scraped_count,     \* the local counter jobs_scraped of scrape_jobs
    existing_job_ids,  \* self.existing_job_ids
    driver,            \* the browsing session
    fetched,           \* history: IDs navigated to in this run, in order
    cursor_writes,     \* history: last_job_id values written in this run
    stop_reason,       \* history: why the loop of this run ended
    state_at_start,    \* history: state_file as the run found it
    runs,              \* history: number of runs started
    site_changed,      \* history: a page may have changed since the previous run ended
    prev_accepted,     \* history: job_ids appended to the output of earlier runs
    prev_failsafe,     \* history: ID at which the previous run hit the failsafe, 0 if none
    pauses,            \* history: number of time.sleep(1) pauses of the loop in this run
    prev_stop_id,      \* history: self.current_job_id when the previous run ended, 0 if none
    call,              \* a single function of the program applied to an argument
    result             \* what that application returned

vars == << site, state_file, raw_file, cwd_raw_file, pc, entry, max_jobs,
           current_job_id, start_id, jobs_scraped, scraped_count,
           existing_job_ids, driver, fetched, cursor_writes, stop_reason,
           state_at_start, runs, site_changed, prev_accepted,
           prev_failsafe, pauses, prev_stop_id, call, result >>

\* the state of the program and of its files
program == << site, state_file, raw_file, cwd_raw_file, pc, entry, max_jobs,
              current_job_id, start_id, jobs_scraped, scraped_count,
              existing_job_ids, driver, fetched, cursor_writes, stop_reason,
              state_at_start, runs, site_changed, prev_accepted,
              prev_failsafe, pauses, prev_stop_id >>

Ids == initial_job_id .. (initial_job_id + NumIds - 1)

(***************************************************************************)
(* Pages.  A page is what the browser shows after driver.get(job_url):     *)
(* a redirect away from /jobs/{id}, a page whose fetch or parse raises, or *)
(* a job page; of a job page the model keeps the text of the element that  *)
(* the selector chains of extract_job_data find for title, company,        *)
(* description and requirements ("" when no selector matches).  The page   *)
(* of an ID is fixed the first time a run navigates to it; until then it   *)
(* is UnknownPage.                                                         *)
(***************************************************************************)
Page(kind, title, company, description, requirements) ==
    [kind |-> kind, title |-> title, company |-> company,
     description |-> description, requirements |-> requirements]

UnknownPage  == Page("unknown", "", "", "", "")
RedirectPage == Page("redirect", "", "", "", "")
ErrorPage    == Page("error", "", "", "", "")
GoodPage     == Page("page", "data engineer", "acme", "build and run data pipelines", "")
ShortPage    == Page("page", "data engineer", "", "tbd", "")
BlankPage    == Page("page", "", "", "", "")

PageKinds == {RedirectPage, ErrorPage, GoodPage, ShortPage, BlankPage}

\* the pages driver.get may show for an ID; IDs outside the window have no posting
Served(s, id) ==
    IF id \notin DOMAIN s THEN {RedirectPage}
    ELSE IF s[id] = UnknownPage THEN PageKinds
    ELSE {s[id]}

\* the site once `page` was shown for an ID
Observed(s, id, page) ==
    IF id \in DOMAIN s THEN [s EXCEPT ![id] = page] ELSE s

(***************************************************************************)
(* Texts.  Texts are strings; strip(), len() and slicing are computed,     *)
(* lower() is given for the texts that occur in the model.                 *)
(***************************************************************************)
DefaultTitle        == "Unknown Title"
DefaultCompany      == "Unknown Company"
DefaultDescription  == "No description available"
DefaultRequirements == "No requirements specified"

\* the caps of description[:1000] and requirements[:500]
DescriptionCap  == 1000
RequirementsCap == 500

Lower(s) ==
    CASE s = "Unknown Title" -> "unknown title"
      [] s = "Unknown Company" -> "unknown company"
      [] s = "No description available" -> "no description available"
      [] s = "No requirements specified" -> "no requirements specified"
      [] s = "Unknown" -> "unknown"
      [] s = "No Title" -> "no title"
      [] s = "NO COMPANY" -> "no company"
      [] s = "Unknown Description" -> "unknown description"
      [] s = "Unknown position" -> "unknown position"
      [] OTHER -> s

StrLen(s) == Len(s)

\* str.strip()
RECURSIVE strip(_)
strip(s) ==
    IF s = "" THEN ""
    ELSE IF Head(s) = " " THEN strip(Tail(s))
    ELSE IF SubSeq(s, Len(s), Len(s)) = " " THEN strip(SubSeq(s, 1, Len(s) - 1))
    ELSE s

\* the slice s[:n]
Slice(s, n) == IF Len(s) > n THEN SubSeq(s, 1, n) ELSE s

\* soup.select_one(selector): no element, or an element with its text
NoElement  == [found |-> FALSE, text |-> ""]
Element(t) == [found |-> TRUE, text |-> t]

\* element.get_text(strip=True)
get_text(element) == strip(element.text)

\* faulty variant: only the first selector of the chain is consulted
extract_text_by_selectors_FirstOnly(matches, default) ==
    IF matches # << >> /\ Head(matches).found /\ get_text(Head(matches)) # ""
    THEN get_text(Head(matches))
    ELSE default

\* _extract_text_by_selectors; `matches` is what soup.select_one returns for
\* each selector of the chain, in the order of the chain
RECURSIVE extract_text_by_selectors(_, _)
extract_text_by_selectors(matches, default) ==
    IF matches = << >> THEN default
    ELSE IF Head(matches).found /\ get_text(Head(matches)) # ""
         THEN get_text(Head(matches))
         ELSE extract_text_by_selectors(Tail(matches), default)

\* number of TRUE entries of a sequence of booleans
RECURSIVE SumTrue(_)
SumTrue(bs) ==
    IF bs = << >> THEN 0
    ELSE (IF Head(bs) THEN 1 ELSE 0) + SumTrue(Tail(bs))

empty_indicators(job) ==
    << \/ job.title = ""
       \/ strip(job.title) = ""
       \/ Lower(job.title) \in {"unknown", "no title", "unknown title"},
       \/ job.company = ""
       \/ strip(job.company) = ""
       \/ Lower(job.company) \in {"unknown", "unknown company", "no company"},
       \/ job.description = ""
       \/ strip(job.description) = ""
       \/ Lower(job.description) \in {"no description available", "no description",
                                      "unknown description"}
       \/ StrLen(strip(job.description)) < MinDescriptionLen >>

\* faulty variant: one indicator is enough
is_empty_job_AnyIndicator(job) ==
    \E indicators \in {empty_indicators(job)} : SumTrue(indicators) >= 1

is_empty_job(job) ==
    \E indicators \in {empty_indicators(job)} : SumTrue(indicators) >= 2

\* faulty variant: description and requirements are stripped but not sliced
JobPosting_Uncapped(job_id, page) ==
    [job_id       |-> job_id,
     title        |-> strip(extract_text_by_selectors(<< Element(page.title) >>,
                                                      DefaultTitle)),
     company      |-> strip(extract_text_by_selectors(<< Element(page.company) >>,
                                                      DefaultCompany)),
     description  |-> strip(extract_text_by_selectors(
                                << Element(page.description) >>,
                                DefaultDescription)),
     requirements |-> strip(extract_text_by_selectors(
                                << Element(page.requirements) >>,
                                DefaultRequirements))]

\* the JobPosting that extract_job_data builds from a job page
JobPosting(job_id, page) ==
    [job_id       |-> job_id,
     title        |-> strip(extract_text_by_selectors(<< Element(page.title) >>,
                                                      DefaultTitle)),
     company      |-> strip(extract_text_by_selectors(<< Element(page.company) >>,
                                                      DefaultCompany)),
     description  |-> Slice(strip(extract_text_by_selectors(
                                      << Element(page.description) >>,
                                      DefaultDescription)), DescriptionCap),
     requirements |-> Slice(strip(extract_text_by_selectors(
                                      << Element(page.requirements) >>,
                                      DefaultRequirements)), RequirementsCap)]

NoJob == [job_id |-> 0, title |-> "", company |-> "", description |-> "",
          requirements |-> ""]

\* JobPosting(job_id, page), kept in a table for the pages the site serves
SitePostings == [page \in PageKinds |-> JobPosting(0, page)]

BuiltPosting(job_id, page) ==
    IF page \in PageKinds THEN [SitePostings[page] EXCEPT !.job_id = job_id]
    ELSE JobPosting(job_id, page)

\* the failsafe of extract_job_data on the JobPosting it has built
Validated(job) ==
    IF is_empty_job(job) THEN [tag |-> "EMPTY_JOB_STOP", job |-> NoJob]
    ELSE [tag |-> "job", job |-> job]

\* what extract_job_data returns for an ID whose page is `page`; the
\* JobPosting is built once and then validated
extract_job_data(job_id, page) ==
    IF page.kind = "redirect" THEN [tag |-> "None", job |-> NoJob]
    ELSE IF page.kind = "error" THEN [tag |-> "None", job |-> NoJob]
    ELSE CHOOSE r \in { Validated(job) : job \in {BuiltPosting(job_id, page)} } : TRUE

(***************************************************************************)
(* Files.                                                                  *)
(***************************************************************************)
AbsentState  == [kind |-> "absent", last_job_id |-> 0, total_runs |-> 0]
CorruptState == [kind |-> "corrupt", last_job_id |-> 0, total_runs |-> 0]

\* a file that cannot be opened, a JSON array, an object without last_job_id
UnreadableState == [kind |-> "unreadable", last_job_id |-> 0, total_runs |-> 0]
ArrayState      == [kind |-> "array", last_job_id |-> 0, total_runs |-> 0]
ObjectWithoutId(total_runs) ==
    [kind |-> "object_without_id", last_job_id |-> 0, total_runs |-> total_runs]
ObjectState(last_job_id, total_runs) ==
    [kind |-> "object", last_job_id |-> last_job_id, total_runs |-> total_runs]

\* existing_state.get('total_runs', 0) of a file that json.load reads as a dict
IsDict(sf) == sf.kind \in {"object", "object_without_id"}

AbsentRaw == [exists |-> FALSE, jobs |-> << >>]

\* faulty variant: no fallback to the initial ID
load_last_job_id_NoFallback(sf) == sf.last_job_id

load_last_job_id(sf) ==
    IF sf.kind = "object" THEN sf.last_job_id ELSE initial_job_id

\* faulty variant: every save writes total_runs = 1
save_last_job_id_RestartsCount(sf, job_id) ==
    [kind |-> "object", last_job_id |-> job_id, total_runs |-> 1]

\* faulty variant: the run count of the existing file is kept, not incremented
save_last_job_id_KeepsRunCount(sf, job_id) ==
    [kind        |-> "object",
     last_job_id |-> job_id,
     total_runs  |-> IF IsDict(sf) THEN sf.total_runs ELSE 1]

save_last_job_id(sf, job_id) ==
    [kind        |-> "object",
     last_job_id |-> job_id,
     total_runs  |-> IF IsDict(sf) THEN sf.total_runs + 1 ELSE 1]

JobIdsOf(jobs) == { jobs[i].job_id : i \in 1..Len(jobs) }

load_existing_job_ids(data, cwd) ==
    IF data.exists /\ data.jobs # << >> THEN JobIdsOf(data.jobs)
    ELSE IF cwd.exists /\ cwd.jobs # << >> THEN JobIdsOf(cwd.jobs)
    ELSE {}

\* the raw-records file that save_results writes
save_results(jobs) == [exists |-> TRUE, jobs |-> jobs]

\* faulty variant: the walk resumes at the loaded ID itself
StartJobId_NoStepBack(loaded) == loaded

\* faulty variant: the walk resumes two IDs past the loaded ID
StartJobId_StepsAhead(loaded) ==
    IF loaded > initial_job_id THEN loaded + 2 ELSE loaded

\* the ID at which the walk of a new EspritJobScraper starts
StartJobId(loaded) ==
    IF loaded > initial_job_id THEN loaded - 1 ELSE loaded

(***************************************************************************)
(* Initial state: a fresh working directory, no run started yet.           *)
(***************************************************************************)
\* no function is being applied
NoCall ==
    [fn |-> "none", job |-> NoJob, url |-> "", matches |-> << >>,
     default |-> "", page |-> UnknownPage, sf |-> AbsentState, done |-> FALSE]

NoResult == [bool |-> FALSE, text |-> "", num |-> 0, job |-> NoJob]

LegacyRaw == [exists |-> TRUE, jobs |-> << JobPosting(initial_job_id, GoodPage) >>]

\* no EspritJobScraper has been constructed yet
NoRunYet ==
    /\ state_file \in {AbsentState, CorruptState}
    /\ raw_file = AbsentRaw
    /\ cwd_raw_file \in {AbsentRaw, LegacyRaw}
    /\ pc = "idle"
    /\ entry = "none"
    /\ max_jobs = 0
    /\ current_job_id = 0
    /\ start_id = 0
    /\ jobs_scraped = << >>
    /\ scraped_count = 0
    /\ existing_job_ids = {}
    /\ driver = "none"
    /\ fetched = << >>
    /\ cursor_writes = << >>
    /\ stop_reason = "none"
    /\ state_at_start = AbsentState
    /\ runs = 0
    /\ site_changed = FALSE
    /\ prev_accepted = {}
    /\ prev_failsafe = 0
    /\ pauses = 0
    /\ prev_stop_id = 0

InitProgram ==
    /\ site = [id \in Ids |-> UnknownPage]
    /\ NoRunYet

Init ==
    /\ InitProgram
    /\ call = NoCall
    /\ result = NoResult

(***************************************************************************)
(* Start of a run: EspritJobScraper.__init__ and __enter__.                *)
(***************************************************************************)
Construct(e, mj, sf) ==
    /\ pc = "idle"
    /\ runs < MaxRuns
    /\ state_file' = sf
    /\ current_job_id' = StartJobId(load_last_job_id(sf))
    /\ existing_job_ids' = load_existing_job_ids(raw_file, cwd_raw_file)
    /\ jobs_scraped' = << >>
    /\ driver' = "open"
    /\ entry' = e
    /\ max_jobs' = mj
    /\ pc' = "login"
    /\ fetched' = << >>
    /\ cursor_writes' = << >>
    /\ stop_reason' = "none"
    /\ state_at_start' = sf
    /\ runs' = runs + 1
    /\ UNCHANGED << site, raw_file, cwd_raw_file, start_id, scraped_count,
                    site_changed, prev_accepted, prev_failsafe, pauses,
                    prev_stop_id, call, result >>

\* esprit_job_scraper.main
StartMain == Construct("main", MainMaxJobs, state_file)

\* run_scraper.main with --max-jobs mj, and with or without --reset
RunScraperStarts(reset) ==
    \E mj \in 0..MaxJobs :
        Construct("run_scraper", mj, IF reset THEN AbsentState ELSE state_file)

StartRunScraper == \E reset \in BOOLEAN : RunScraperStarts(reset)

\* run_scraper.main without --reset
StartRunScraperNoReset == RunScraperStarts(FALSE)

(***************************************************************************)
(* scrape_jobs.                                                            *)
(***************************************************************************)
\* faulty variant: the cursor is saved before scrape_jobs returns []
LoginFails_SavesCursor ==
    /\ pc = "login"
    /\ pc' = "returned"
    /\ stop_reason' = "login"
    /\ state_file' = save_last_job_id(state_file, current_job_id)
    /\ cursor_writes' = Append(cursor_writes, current_job_id)
    /\ UNCHANGED << site, raw_file, cwd_raw_file, entry, max_jobs,
                    current_job_id, start_id, jobs_scraped, scraped_count,
                    existing_job_ids, driver, fetched, state_at_start, runs,
                    site_changed, prev_accepted, prev_failsafe, pauses,
                    prev_stop_id, call, result >>

\* login() returned False
LoginFails ==
    /\ pc = "login"
    /\ pc' = "returned"
    /\ stop_reason' = "login"
    /\ UNCHANGED << site, state_file, raw_file, cwd_raw_file, entry, max_jobs,
                    current_job_id, start_id, jobs_scraped, scraped_count,
                    existing_job_ids, driver, fetched, cursor_writes,
                    state_at_start, runs, site_changed,
                    prev_accepted, prev_failsafe, pauses,
                    prev_stop_id, call, result >>

LoginSucceeds ==
    /\ pc = "login"
    /\ start_id' = current_job_id
    /\ scraped_count' = 0
    /\ pc' = "loop"
    /\ UNCHANGED << site, state_file, raw_file, cwd_raw_file, entry, max_jobs,
                    current_job_id, jobs_scraped, existing_job_ids, driver,
                    fetched, cursor_writes, stop_reason, state_at_start, runs,
                    site_changed, prev_accepted, prev_failsafe, pauses,
                    prev_stop_id, call, result >>

\* faulty variant: the loop runs once more after the quota is reached
LoopCondition_OffByOne == scraped_count <= max_jobs

\* the loop condition of scrape_jobs
LoopCondition == scraped_count < max_jobs

\* driver.get(job_url) shows `page`
Navigate(page) ==
    /\ page \in Served(site, current_job_id)
    /\ site' = Observed(site, current_job_id, page)
    /\ fetched' = Append(fetched, current_job_id)

\* "if self.jobs_scraped: self.save_results()" of the two stop branches
SaveIfAny == IF jobs_scraped # << >> THEN save_results(jobs_scraped) ELSE raw_file

\* faulty variant: a None that comes from a caught exception does not end the loop
JobIsNone_ErrorContinues ==
    /\ pc = "loop"
    /\ LoopCondition
    /\ \E page \in PageKinds :
          /\ Navigate(page)
          /\ extract_job_data(current_job_id, page).tag = "None"
          /\ IF page.kind = "redirect"
             THEN /\ stop_reason' = "missing"
                  /\ raw_file' = SaveIfAny
                  /\ pc' = "after_loop"
                  /\ UNCHANGED current_job_id
             ELSE /\ current_job_id' = current_job_id + 1
                  /\ UNCHANGED << stop_reason, raw_file, pc >>
    /\ UNCHANGED << state_file, cwd_raw_file, entry, max_jobs, start_id,
                    jobs_scraped, scraped_count, existing_job_ids, driver,
                    cursor_writes, state_at_start, runs, site_changed,
                    prev_accepted, prev_failsafe, pauses,
                    prev_stop_id, call, result >>

\* extract_job_data returned None (a redirect, or an exception it caught);
\* the loop breaks with self.current_job_id = `id`
JobIsNoneLeaving(id) ==
    /\ pc = "loop"
    /\ LoopCondition
    /\ \E page \in PageKinds :
          /\ Navigate(page)
          /\ extract_job_data(current_job_id, page).tag = "None"
          /\ stop_reason' = IF page.kind = "redirect" THEN "missing" ELSE "error"
    /\ raw_file' = SaveIfAny
    /\ current_job_id' = id
    /\ pc' = "after_loop"
    /\ UNCHANGED << state_file, cwd_raw_file, entry, max_jobs, start_id,
                    jobs_scraped, scraped_count, existing_job_ids, driver,
                    cursor_writes, state_at_start, runs, site_changed,
                    prev_accepted, prev_failsafe, pauses,
                    prev_stop_id, call, result >>

\* faulty variant: the increment at the end of the loop body also runs on this branch
JobIsNone_Advances == JobIsNoneLeaving(current_job_id + 1)

JobIsNone == JobIsNoneLeaving(current_job_id)

\* extract_job_data found the job empty, saved the cursor and returned EMPTY_JOB_STOP
JobIsEmptyStop ==
    /\ pc = "loop"
    /\ LoopCondition
    /\ \E page \in PageKinds :
          /\ Navigate(page)
          /\ extract_job_data(current_job_id, page).tag = "EMPTY_JOB_STOP"
    /\ state_file' = save_last_job_id(state_file, current_job_id)
    /\ cursor_writes' = Append(cursor_writes, current_job_id)
    /\ raw_file' = SaveIfAny
    /\ stop_reason' = "empty"
    /\ pc' = "after_loop"
    /\ UNCHANGED << cwd_raw_file, entry, max_jobs, current_job_id, start_id,
                    jobs_scraped, scraped_count, existing_job_ids, driver,
                    state_at_start, runs, site_changed, prev_accepted,
                    prev_failsafe, pauses,
                    prev_stop_id, call, result >>

\* a job whose job_id is in existing_job_ids; the local counter grows by `n`
JobIsDuplicateCounting(n) ==
    /\ pc = "loop"
    /\ LoopCondition
    /\ \E page \in PageKinds :
          \E job \in {extract_job_data(current_job_id, page)} :
          /\ Navigate(page)
          /\ job.tag = "job"
          /\ job.job.job_id \in existing_job_ids
    /\ scraped_count' = scraped_count + n
    /\ current_job_id' = current_job_id + 1
    /\ pauses' = pauses + 1
    /\ UNCHANGED << state_file, raw_file, cwd_raw_file, pc, entry, max_jobs,
                    start_id, jobs_scraped, existing_job_ids, driver,
                    cursor_writes, stop_reason, state_at_start, runs,
                    site_changed, prev_accepted, prev_failsafe, prev_stop_id, call, result >>

\* faulty variant: a duplicate counts toward the quota
JobIsDuplicate_Counts == JobIsDuplicateCounting(1)

JobIsDuplicate == JobIsDuplicateCounting(0)

\* a job whose job_id is new; self.current_job_id grows by `step`
JobIsAcceptedAdvancing(step) ==
    /\ pc = "loop"
    /\ LoopCondition
    /\ \E page \in PageKinds :
          \E job \in {extract_job_data(current_job_id, page)} :
          /\ Navigate(page)
          /\ job.tag = "job"
          /\ job.job.job_id \notin existing_job_ids
          /\ jobs_scraped' = Append(jobs_scraped, job.job)
          /\ existing_job_ids' = existing_job_ids \cup {job.job.job_id}
    /\ scraped_count' = scraped_count + 1
    /\ current_job_id' = current_job_id + step
    /\ pauses' = pauses + 1
    /\ UNCHANGED << state_file, raw_file, cwd_raw_file, pc, entry, max_jobs,
                    start_id, driver, cursor_writes, stop_reason,
                    state_at_start, runs, site_changed, prev_accepted,
                    prev_failsafe, prev_stop_id, call, result >>

\* faulty variant: the ID is not advanced after a job is appended
JobIsAccepted_StaysOnId == JobIsAcceptedAdvancing(0)

JobIsAccepted == JobIsAcceptedAdvancing(1)

\* faulty variant: the loop does not end when the quota is reached
QuotaReached_KeepsLooping ==
    /\ pc = "loop"
    /\ ~LoopCondition
    /\ UNCHANGED vars

\* the loop condition is false
QuotaReached ==
    /\ pc = "loop"
    /\ ~LoopCondition
    /\ stop_reason' = "quota"
    /\ pc' = "after_loop"
    /\ UNCHANGED << site, state_file, raw_file, cwd_raw_file, entry, max_jobs,
                    current_job_id, start_id, jobs_scraped, scraped_count,
                    existing_job_ids, driver, fetched, cursor_writes,
                    state_at_start, runs, site_changed,
                    prev_accepted, prev_failsafe, pauses,
                    prev_stop_id, call, result >>

\* after the loop, saving `last` as the last processed ID; return self.jobs_scraped
AfterLoopSaving(last) ==
    /\ pc = "after_loop"
    /\ IF current_job_id > start_id
       THEN /\ state_file' = save_last_job_id(state_file, last)
            /\ cursor_writes' = Append(cursor_writes, last)
       ELSE UNCHANGED << state_file, cursor_writes >>
    /\ pc' = "returned"
    /\ UNCHANGED << site, raw_file, cwd_raw_file, entry, max_jobs,
                    current_job_id, start_id, jobs_scraped, scraped_count,
                    existing_job_ids, driver, fetched, stop_reason,
                    state_at_start, runs, site_changed, prev_accepted,
                    prev_failsafe, pauses,
                    prev_stop_id, call, result >>

\* faulty variant: the cursor is saved one past the last processed ID
AfterLoop_SavesCurrent == AfterLoopSaving(current_job_id)

AfterLoop == AfterLoopSaving(current_job_id - 1)

(***************************************************************************)
(* The callers after scrape_jobs returned, and __exit__.                   *)
(***************************************************************************)
\* faulty variant: __exit__ does not quit the driver
EndOfRun_LeavesSessionOpen ==
    /\ pc' = "idle"
    /\ driver' = driver
    /\ entry' = "none"
    /\ max_jobs' = 0
    /\ current_job_id' = 0
    /\ start_id' = 0
    /\ jobs_scraped' = << >>
    /\ scraped_count' = 0
    /\ existing_job_ids' = {}
    /\ fetched' = << >>
    /\ cursor_writes' = << >>
    /\ stop_reason' = "none"
    /\ state_at_start' = AbsentState
    /\ site_changed' = FALSE
    /\ prev_accepted' = prev_accepted \cup JobIdsOf(jobs_scraped)
    /\ prev_failsafe' = IF stop_reason = "empty" THEN current_job_id ELSE 0
    /\ pauses' = 0
    /\ prev_stop_id' = current_job_id
    /\ UNCHANGED << site, state_file, cwd_raw_file, runs, call, result >>

\* __exit__ quits the driver; the process ends
EndOfRun ==
    /\ pc' = "idle"
    /\ driver' = "closed"
    /\ entry' = "none"
    /\ max_jobs' = 0
    /\ current_job_id' = 0
    /\ start_id' = 0
    /\ jobs_scraped' = << >>
    /\ scraped_count' = 0
    /\ existing_job_ids' = {}
    /\ fetched' = << >>
    /\ cursor_writes' = << >>
    /\ stop_reason' = "none"
    /\ state_at_start' = AbsentState
    /\ site_changed' = FALSE
    /\ prev_accepted' = prev_accepted \cup JobIdsOf(jobs_scraped)
    /\ prev_failsafe' = IF stop_reason = "empty" THEN current_job_id ELSE 0
    /\ pauses' = 0
    /\ prev_stop_id' = current_job_id
    /\ UNCHANGED << site, state_file, cwd_raw_file, runs, call, result >>

MainReturns ==
    /\ pc = "returned"
    /\ entry = "main"
    /\ UNCHANGED raw_file
    /\ EndOfRun

RunScraperReturns ==
    /\ pc = "returned"
    /\ entry = "run_scraper"
    /\ raw_file' = SaveIfAny
    /\ EndOfRun

(***************************************************************************)
(* The environment: between two runs the site may replace a page it has    *)
(* shown; the next navigation to that ID fixes the new page.               *)
(***************************************************************************)
SiteChange ==
    /\ pc = "idle"
    /\ ~site_changed
    /\ \E id \in Ids :
          /\ site[id] # UnknownPage
          /\ site' = [site EXCEPT ![id] = UnknownPage]
    /\ site_changed' = TRUE
    /\ UNCHANGED << state_file, raw_file, cwd_raw_file, pc, entry, max_jobs,
                    current_job_id, start_id, jobs_scraped, scraped_count,
                    existing_job_ids, driver, fetched, cursor_writes,
                    stop_reason, state_at_start, runs, prev_accepted,
                    prev_failsafe, pauses,
                    prev_stop_id, call, result >>

Next ==
    \/ StartMain
    \/ StartRunScraper
    \/ LoginFails
    \/ LoginSucceeds
    \/ JobIsNone
    \/ JobIsEmptyStop
    \/ JobIsDuplicate
    \/ JobIsAccepted
    \/ QuotaReached
    \/ AfterLoop
    \/ MainReturns
    \/ RunScraperReturns
    \/ SiteChange

Spec == Init /\ [][Next]_vars

\* the runs that keep the cursor file: no run is given --reset
NextNoReset ==
    \/ StartMain
    \/ StartRunScraperNoReset
    \/ LoginFails
    \/ LoginSucceeds
    \/ JobIsNone
    \/ JobIsEmptyStop
    \/ JobIsDuplicate
    \/ JobIsAccepted
    \/ QuotaReached
    \/ AfterLoop
    \/ MainReturns
    \/ RunScraperReturns
    \/ SiteChange

SpecNoReset == Init /\ [][NextNoReset]_vars

(***************************************************************************)
(* Faults.  An interruption of the process (KeyboardInterrupt) while       *)
(* scrape_jobs runs, and writes that fail: to the cursor file (caught in   *)
(* save_last_job_id), to the raw-records file and to the feeds (not caught *)
(* in scrape_jobs).  A write that fails leaves the file as it was, or      *)
(* truncated.                                                              *)
(***************************************************************************)
\* a raw-records file that open(..., 'w') truncated before the write failed
TruncatedRaw == [exists |-> TRUE, jobs |-> << >>]

FailedRawWrite(file) == {file, TruncatedRaw}
FailedCursorWrite(file) == {file, CorruptState}

\* KeyboardInterrupt inside scrape_jobs; it propagates to the caller
Interrupt ==
    /\ pc \in {"login", "loop", "after_loop"}
    /\ pc' = "raised"
    /\ stop_reason' = "interrupt"
    /\ UNCHANGED << site, state_file, raw_file, cwd_raw_file, entry, max_jobs,
                    current_job_id, start_id, jobs_scraped, scraped_count,
                    existing_job_ids, driver, fetched, cursor_writes,
                    state_at_start, runs, site_changed,
                    prev_accepted, prev_failsafe, pauses,
                    prev_stop_id, call, result >>

\* a stop branch of the loop whose save_results(), or whose
\* generate_all_feeds() after it, raises; the exception leaves scrape_jobs
StopBranchRaises(tag) ==
    /\ pc = "loop"
    /\ LoopCondition
    /\ jobs_scraped # << >>
    /\ \E page \in PageKinds :
          /\ Navigate(page)
          /\ extract_job_data(current_job_id, page).tag = tag
    /\ \/ /\ raw_file' \in FailedRawWrite(raw_file)
          /\ stop_reason' = "save_failed"
       \/ /\ raw_file' = save_results(jobs_scraped)
          /\ stop_reason' = "feed_failed"
    /\ pc' = "raised"
    /\ UNCHANGED << cwd_raw_file, entry, max_jobs, current_job_id, start_id,
                    jobs_scraped, scraped_count, existing_job_ids, driver,
                    state_at_start, runs, site_changed, prev_accepted,
                    prev_failsafe, pauses,
                    prev_stop_id, call, result >>

JobIsNoneSaveRaises ==
    /\ StopBranchRaises("None")
    /\ UNCHANGED << state_file, cursor_writes >>

\* the failsafe saved the cursor inside extract_job_data before the branch ran
JobIsEmptyStopSaveRaises ==
    /\ StopBranchRaises("EMPTY_JOB_STOP")
    /\ state_file' = save_last_job_id(state_file, current_job_id)
    /\ cursor_writes' = Append(cursor_writes, current_job_id)

\* the failsafe's save_last_job_id fails; the error is logged, the walk goes on
JobIsEmptyStopCursorFails ==
    /\ pc = "loop"
    /\ LoopCondition
    /\ \E page \in PageKinds :
          /\ Navigate(page)
          /\ extract_job_data(current_job_id, page).tag = "EMPTY_JOB_STOP"
    /\ state_file' \in FailedCursorWrite(state_file)
    /\ raw_file' = SaveIfAny
    /\ stop_reason' = "empty"
    /\ pc' = "after_loop"
    /\ UNCHANGED << cwd_raw_file, entry, max_jobs, current_job_id, start_id,
                    jobs_scraped, scraped_count, existing_job_ids, driver,
                    cursor_writes, state_at_start, runs, site_changed,
                    prev_accepted, prev_failsafe, pauses,
                    prev_stop_id, call, result >>

\* the save_last_job_id after the loop fails; scrape_jobs returns
AfterLoopCursorFails ==
    /\ pc = "after_loop"
    /\ current_job_id > start_id
    /\ state_file' \in FailedCursorWrite(state_file)
    /\ pc' = "returned"
    /\ UNCHANGED << site, raw_file, cwd_raw_file, entry, max_jobs,
                    current_job_id, start_id, jobs_scraped, scraped_count,
                    existing_job_ids, driver, fetched, cursor_writes,
                    stop_reason, state_at_start, runs, site_changed,
                    prev_accepted, prev_failsafe, pauses,
                    prev_stop_id, call, result >>

\* esprit_job_scraper.main: except KeyboardInterrupt / except Exception
MainHandlesException ==
    /\ pc = "raised"
    /\ entry = "main"
    /\ raw_file' = SaveIfAny
    /\ EndOfRun

\* run_scraper.main: except Exception returns 1, KeyboardInterrupt propagates
RunScraperHandlesException ==
    /\ pc = "raised"
    /\ entry = "run_scraper"
    /\ UNCHANGED raw_file
    /\ EndOfRun

\* run_scraper.main: scraper.save_results() of line 80 raises
RunScraperReturnsSaveRaises ==
    /\ pc = "returned"
    /\ entry = "run_scraper"
    /\ jobs_scraped # << >>
    /\ raw_file' \in FailedRawWrite(raw_file)
    /\ EndOfRun

NextFaults ==
    \/ StartMain
    \/ StartRunScraperNoReset
    \/ LoginFails
    \/ LoginSucceeds
    \/ JobIsNone
    \/ JobIsEmptyStop
    \/ JobIsDuplicate
    \/ JobIsAccepted
    \/ QuotaReached
    \/ AfterLoop
    \/ MainReturns
    \/ RunScraperReturns
    \/ Interrupt
    \/ JobIsNoneSaveRaises
    \/ JobIsEmptyStopSaveRaises
    \/ JobIsEmptyStopCursorFails
    \/ AfterLoopCursorFails
    \/ MainHandlesException
    \/ RunScraperHandlesException
    \/ RunScraperReturnsSaveRaises

\* a started run is not suspended forever: the process keeps executing
RunStep ==
    \/ LoginFails
    \/ LoginSucceeds
    \/ JobIsNone
    \/ JobIsEmptyStop
    \/ JobIsDuplicate
    \/ JobIsAccepted
    \/ QuotaReached
    \/ AfterLoop
    \/ MainReturns
    \/ RunScraperReturns
    \/ MainHandlesException
    \/ RunScraperHandlesException

SpecFaults == Init /\ [][NextFaults]_vars

\* a working directory without cursor file and without records
InitFresh ==
    /\ Init
    /\ state_file = AbsentState
    /\ cwd_raw_file = AbsentRaw

SpecFaultsFair == InitFresh /\ [][NextFaults]_vars /\ WF_vars(RunStep)

(***************************************************************************)
(* Single functions.  A behaviour of SpecUnit applies one function of the  *)
(* program to one argument drawn from the sets below.                      *)
(***************************************************************************)
\* longest selector chain, and longest URL in path segments after the base URL
MaxSelectors   == 3
MaxUrlSegments == 4

base_url == "https://espritconnect.com"

\* str.endswith and the substring test `sub in s`
EndsWith(s, suffix) ==
    /\ Len(s) >= Len(suffix)
    /\ SubSeq(s, Len(s) - Len(suffix) + 1, Len(s)) = suffix

Contains(s, sub) ==
    \E i \in 1..(Len(s) - Len(sub) + 1) : SubSeq(s, i, i + Len(sub) - 1) = sub

\* faulty variant: a URL without '/jobs/' is not taken for a redirect
is_redirected_to_home_NoPathTest(current_url) ==
    \/ EndsWith(current_url, "/feed")
    \/ EndsWith(current_url, "/")
    \/ EndsWith(current_url, "/jobs")
    \/ current_url = base_url
    \/ current_url = base_url \o "/"
    \/ current_url = base_url \o "/feed"

is_redirected_to_home(current_url) ==
    \/ EndsWith(current_url, "/feed")
    \/ EndsWith(current_url, "/")
    \/ EndsWith(current_url, "/jobs")
    \/ ~Contains(current_url, "/jobs/")
    \/ current_url = base_url
    \/ current_url = base_url \o "/"
    \/ current_url = base_url \o "/feed"

\* s repeated n times
RECURSIVE Repeat(_, _)
Repeat(s, n) ==
    IF n = 0 THEN ""
    ELSE LET half == Repeat(s, n \div 2)
         IN  IF n % 2 = 0 THEN half \o half ELSE half \o half \o s

\* the records given to _is_empty_job
Titles == {"", "  ", "data engineer", "Unknown", "No Title", "Unknown Title",
           "Unknown position"}
Companies == {"", "acme", "unknown", "Unknown Company", "NO COMPANY"}
Descriptions == {"", "   ", "tbd", "No description available", "no description",
                 "Unknown Description", "nineteen characters",
                 "exactly twenty chars", "  padded short text   ",
                 "build and run data pipelines"}

JobRecords ==
    { [job_id |-> initial_job_id, title |-> t, company |-> c, description |-> d,
       requirements |-> DefaultRequirements] :
      t \in Titles, c \in Companies, d \in Descriptions }

\* the URLs the browser may end up on
UrlSegments == {"/", "jobs", "feed", "795", "login"}

RECURSIVE UrlTails(_)
UrlTails(n) ==
    IF n = 0 THEN {""}
    ELSE LET shorter == UrlTails(n - 1)
         IN  shorter \cup { t \o seg : t \in shorter, seg \in UrlSegments }

Urls == { base_url \o t : t \in UrlTails(MaxUrlSegments) }
            \cup {"about:blank", "https://other.example/jobs/795"}

\* what select_one may return for the i-th selector of a chain
SelectorText(i) == "text" \o ToString(i)

Matched(i) == {NoElement, Element(""), Element("  "),
               Element(" " \o SelectorText(i) \o "  ")}

MatchChains ==
    UNION { { m \in [1..n -> UNION { Matched(i) : i \in 1..n }] :
                \A i \in 1..n : m[i] \in Matched(i) } : n \in 0..MaxSelectors }

Defaults == {DefaultTitle, DefaultDescription}

\* job pages with texts around and beyond the caps
TextLengths == {0, MinDescriptionLen, RequirementsCap - 1, RequirementsCap,
                RequirementsCap + 1, DescriptionCap - 1, DescriptionCap,
                DescriptionCap + 1, DescriptionCap + RequirementsCap}

LongTexts == { Repeat("x", n) : n \in TextLengths }
                \cup { "  " \o Repeat("x", n) \o " " : n \in TextLengths }

LongPages == { Page("page", "data engineer", "acme", d, r) :
               d \in LongTexts, r \in LongTexts }

\* the cursor files given to load_last_job_id
StateFiles ==
    {AbsentState, UnreadableState, CorruptState, ArrayState}
        \cup { ObjectWithoutId(n) : n \in 1..2 }
        \cup { ObjectState(id, n) : id \in (initial_job_id - 1)..(initial_job_id + 2),
                                    n \in 1..2 }

Calls ==
    { [NoCall EXCEPT !.fn = "is_empty_job", !.job = j] : j \in JobRecords }
    \cup { [NoCall EXCEPT !.fn = "is_redirected_to_home", !.url = u] : u \in Urls }
    \cup { [NoCall EXCEPT !.fn = "extract_text_by_selectors",
                          !.matches = m, !.default = d] :
           m \in MatchChains, d \in Defaults }
    \cup { [NoCall EXCEPT !.fn = "JobPosting", !.page = p] : p \in LongPages }
    \cup { [NoCall EXCEPT !.fn = "load_last_job_id", !.sf = f] : f \in StateFiles }

InitUnit ==
    /\ InitProgram
    /\ call \in Calls
    /\ result = NoResult

\* the function `fn` returns `r`
Returns(fn, r) ==
    /\ call.fn = fn
    /\ ~call.done
    /\ result' = r
    /\ call' = [call EXCEPT !.done = TRUE]
    /\ UNCHANGED program

Apply_is_empty_job ==
    Returns("is_empty_job", [NoResult EXCEPT !.bool = is_empty_job(call.job)])

Apply_is_redirected_to_home ==
    Returns("is_redirected_to_home",
            [NoResult EXCEPT !.bool = is_redirected_to_home(call.url)])

Apply_extract_text_by_selectors ==
    Returns("extract_text_by_selectors",
            [NoResult EXCEPT
                !.text = extract_text_by_selectors(call.matches, call.default)])

Apply_JobPosting ==
    Returns("JobPosting",
            [NoResult EXCEPT !.job = JobPosting(initial_job_id, call.page)])

Apply_load_last_job_id ==
    Returns("load_last_job_id",
            [NoResult EXCEPT !.num = load_last_job_id(call.sf)])

NextUnit ==
    \/ Apply_is_empty_job
    \/ Apply_is_redirected_to_home
    \/ Apply_extract_text_by_selectors
    \/ Apply_JobPosting
    \/ Apply_load_last_job_id

SpecUnit == InitUnit /\ [][NextUnit]_vars

\* `fn` has returned
Returned(fn) == call.fn = fn /\ call.done

(***************************************************************************)
(* Vocabulary of the properties.                                           *)
(***************************************************************************)
\* the page that was shown for an ID fetched in the current run
ShownPage(id) == IF id \in DOMAIN site THEN site[id] ELSE RedirectPage

\* what extract_job_data returned for the i-th fetch of the current run
FetchTag(i) == extract_job_data(fetched[i], ShownPage(fetched[i])).tag

LastFetched == fetched[Len(fetched)]
FetchedIds == { fetched[i] : i \in 1..Len(fetched) }
AcceptedIds == JobIdsOf(jobs_scraped)

\* scrape_jobs has left its loop, or has returned
WalkEnded == pc \in {"after_loop", "returned"}

\* the cursor file holds a cursor
HasCursor == state_file.kind = "object"

(***************************************************************************)
(* C1.  When the extracted record has at least two emptiness indicators    *)
(* true, the walk stops without appending it, and when the run ends the    *)
(* persisted cursor's last_job_id is that record's ID.                     *)
(* The code saves the failing ID inside extract_job_data and then, after   *)
(* the loop, overwrites it with current_job_id - 1 whenever the walk had   *)
(* advanced: the statement is violated.                                    *)
(***************************************************************************)
C1_FailsafeCursorAtFailingId ==
    (pc = "returned" /\ stop_reason = "empty") =>
        /\ LastFetched = current_job_id
        /\ SumTrue(empty_indicators(JobPosting(current_job_id, ShownPage(current_job_id)))) >= 2
        /\ current_job_id \notin AcceptedIds
        /\ HasCursor
        /\ state_file.last_job_id = current_job_id

(***************************************************************************)
(* C2.  End-to-end scenario A: no cursor file, no record known beforehand, *)
(* IDs 795, 796 and 797 show valid pages, ID 798 redirects, quota above 3. *)
(* The run ends with exactly the records 795, 796, 797 in its output.  The *)
(* cursor it saves is last_job_id = 797 (current_job_id - 1, the walk      *)
(* having stopped with current_job_id = 798), not 798.                     *)
(***************************************************************************)
ScenarioAPage(id) == IF id \in 795..797 THEN GoodPage ELSE RedirectPage

ScenarioA ==
    /\ state_at_start.kind = "absent"
    /\ existing_job_ids \ AcceptedIds = {}
    /\ max_jobs > 3
    /\ stop_reason # "login"
    /\ \A id \in Ids \cap (795..798) : site[id] \in {UnknownPage, ScenarioAPage(id)}

ScenarioAOutput ==
    /\ Len(jobs_scraped) = 3
    /\ \A i \in 1..3 : /\ jobs_scraped[i].job_id = 794 + i
                       /\ jobs_scraped[i] = JobPosting(794 + i, GoodPage)

\* the scenario as the specification words it: cursor saved with last_job_id = 798
C2_ScenarioA_Cursor798 ==
    (pc = "returned" /\ ScenarioA) =>
        /\ ScenarioAOutput
        /\ HasCursor
        /\ state_file.last_job_id = 798

\* the scenario as the code runs it: cursor saved with last_job_id = 797
C2_ScenarioA_Cursor797 ==
    (pc = "returned" /\ ScenarioA) =>
        /\ ScenarioAOutput
        /\ cursor_writes = << 797 >>
        /\ HasCursor
        /\ state_file.last_job_id = 797

C2_Witness ==
    /\ pc = "returned"
    /\ ScenarioA
    /\ fetched = << 795, 796, 797, 798 >>
    /\ state_file.last_job_id = 797

(***************************************************************************)
(* C3.  Over runs that share the cursor file and the raw-records file, a   *)
(* job_id appended to the output of an earlier run is never appended to    *)
(* the output of a later run.                                              *)
(* save_results writes only the records of the current run over the raw-   *)
(* records file, so IDs of earlier runs leave the file and, with it, the   *)
(* DuplicateSet of later runs: the statement is violated.                  *)
(***************************************************************************)
C3_NoReemissionAcrossRuns ==
    cwd_raw_file = AbsentRaw => AcceptedIds \cap prev_accepted = {}

(***************************************************************************)
(* C4.  An exception while fetching or parsing one ID produces no record   *)
(* for that ID.  As the specification words it, the walk then goes on to   *)
(* the next ID; in the code extract_job_data returns None, which the loop  *)
(* takes as the end of the available jobs: the walk ends at that ID.       *)
(***************************************************************************)
RaisedAt(i) == ShownPage(fetched[i]).kind = "error"

\* as worded: the fetch after a failing one is that of the next ID
C4_ErrorContinuesAtNextId ==
    \A i \in 1..Len(fetched) :
        RaisedAt(i) =>
            /\ fetched[i] \notin AcceptedIds
            /\ WalkEnded => (i < Len(fetched) /\ fetched[i + 1] = fetched[i] + 1)

\* as coded: the failing fetch is the last one of the run
C4_ErrorEndsWalk ==
    \A i \in 1..Len(fetched) :
        RaisedAt(i) =>
            /\ fetched[i] \notin AcceptedIds
            /\ i = Len(fetched)
            /\ WalkEnded
            /\ stop_reason = "error"
            /\ current_job_id = fetched[i]

C4_Witness ==
    /\ pc = "returned"
    /\ Len(fetched) >= 2
    /\ RaisedAt(Len(fetched))
    /\ jobs_scraped # << >>

(***************************************************************************)
(* C5.  Resume: when the cursor file the run finds holds last_job_id = N   *)
(* with N above the initial ID, the first ID the walk fetches is N - 1;    *)
(* when the file is absent or unreadable, or N is the initial ID, the      *)
(* first ID fetched is the initial ID.                                     *)
(***************************************************************************)
C5_ResumeStart ==
    fetched # << >> =>
        /\ (state_at_start.kind = "object" /\ state_at_start.last_job_id > initial_job_id)
              => fetched[1] = state_at_start.last_job_id - 1
        /\ (state_at_start.kind \in {"absent", "corrupt"})
              => fetched[1] = initial_job_id
        /\ (state_at_start.kind = "object" /\ state_at_start.last_job_id = initial_job_id)
              => fetched[1] = initial_job_id

C5_Witness ==
    /\ fetched # << >>
    /\ state_at_start.kind = "object"
    /\ state_at_start.last_job_id > initial_job_id + 1
    /\ fetched[1] = state_at_start.last_job_id - 1

(***************************************************************************)
(* C6.  For an ID classified as missing the walk appends no record and     *)
(* leaves DuplicateSet unchanged.  As the specification words it, the walk *)
(* then moves to the next ID; in the code the loop breaks: current_job_id  *)
(* stays at the missing ID and the run fetches no further ID.              *)
(***************************************************************************)
\* the page the step shows for the ID it navigates to
PageShownByStep ==
    IF current_job_id \in DOMAIN site THEN site'[current_job_id] ELSE RedirectPage

\* a step of the loop that navigates to current_job_id and is redirected
MissingStep ==
    /\ pc = "loop"
    /\ fetched' = Append(fetched, current_job_id)
    /\ PageShownByStep.kind = "redirect"

\* as worded: the walk moves to the next ID
C6_MissingMovesToNextId ==
    [][ MissingStep =>
            /\ jobs_scraped' = jobs_scraped
            /\ existing_job_ids' = existing_job_ids
            /\ current_job_id' = current_job_id + 1 ]_vars

\* as coded: the walk ends at the missing ID
C6_MissingEndsWalk ==
    [][ /\ MissingStep =>
            /\ jobs_scraped' = jobs_scraped
            /\ existing_job_ids' = existing_job_ids
            /\ current_job_id' = current_job_id
            /\ pc' = "after_loop"
        /\ stop_reason = "missing" =>
            /\ WalkEnded
            /\ Len(fetched') <= Len(fetched)
            /\ LastFetched = current_job_id ]_vars

C6_Witness ==
    /\ pc = "returned"
    /\ stop_reason = "missing"
    /\ jobs_scraped # << >>
    /\ existing_job_ids # AcceptedIds
    /\ LastFetched = current_job_id

(***************************************************************************)
(* C7.  Within one run the walk fetches another ID exactly when the        *)
(* previous fetch yielded a valid record (accepted or duplicate) and fewer *)
(* than max_jobs records have been accepted: nothing is fetched after a    *)
(* missing, failing or empty ID, nothing after max_jobs accepted records,  *)
(* duplicates do not count, and at most max_jobs records are accepted.     *)
(***************************************************************************)
\* number of records accepted before the i-th fetch of the run
AcceptedBefore(i) == Cardinality({ j \in 1..(i - 1) : fetched[j] \in AcceptedIds })

C7_FetchExactlyWhenValidAndBelowQuota ==
    /\ \A i \in 1..Len(fetched) :
          /\ AcceptedBefore(i) < max_jobs
          /\ i > 1 => FetchTag(i - 1) = "job"
    /\ Len(jobs_scraped) <= max_jobs
    /\ Len(jobs_scraped) = Cardinality(AcceptedIds)
    /\ pc = "loop" =>
          /\ scraped_count = Len(jobs_scraped)
          /\ fetched # << >> => FetchTag(Len(fetched)) = "job"
    /\ (WalkEnded /\ stop_reason # "login") =>
          \/ Len(jobs_scraped) = max_jobs
          \/ fetched # << >> /\ FetchTag(Len(fetched)) # "job"
    /\ (WalkEnded /\ fetched # << >> /\ FetchTag(Len(fetched)) = "job")
          => Len(jobs_scraped) = max_jobs

C7_Witness ==
    /\ pc = "returned"
    /\ stop_reason = "quota"
    /\ max_jobs = 2
    /\ Len(jobs_scraped) = 2
    /\ Len(fetched) = 3

(***************************************************************************)
(* C8.  A valid record whose job_id is already in DuplicateSet is not      *)
(* appended; DuplicateSet and the count of accepted records stay as they   *)
(* are; the walk advances, so that the next ID fetched is job_id + 1.  No  *)
(* job_id occurs twice in the output of a run.                             *)
(***************************************************************************)
\* a step of the loop that navigates to current_job_id, finds a valid record
\* and finds its job_id in existing_job_ids
DuplicateStep ==
    /\ pc = "loop"
    /\ fetched' = Append(fetched, current_job_id)
    /\ extract_job_data(current_job_id, PageShownByStep).tag = "job"
    /\ current_job_id \in existing_job_ids

C8_DuplicateDroppedWalkAdvances ==
    /\ [][ /\ DuplicateStep =>
               /\ jobs_scraped' = jobs_scraped
               /\ existing_job_ids' = existing_job_ids
               /\ scraped_count' = scraped_count
               /\ current_job_id' = current_job_id + 1
               /\ pc' = "loop"
               /\ LoopCondition'
           /\ Len(fetched') > Len(fetched) =>
               fetched' = Append(fetched, current_job_id) ]_vars
    /\ [](\A i \in 1..Len(fetched) :
             (FetchTag(i) = "job" /\ fetched[i] \notin AcceptedIds) =>
                 IF i < Len(fetched)
                 THEN fetched[i + 1] = fetched[i] + 1
                 ELSE pc = "loop" /\ current_job_id = fetched[i] + 1 /\ LoopCondition)
    /\ [](\A i, j \in 1..Len(jobs_scraped) :
             jobs_scraped[i].job_id = jobs_scraped[j].job_id => i = j)

C8_Witness ==
    /\ pc = "loop"
    /\ Len(fetched) = 2
    /\ fetched[1] \in AcceptedIds
    /\ FetchTag(2) = "job"
    /\ fetched[2] \in existing_job_ids \ AcceptedIds

(***************************************************************************)
(* C9.  A walk that ends by quota or at a missing ID persists the cursor   *)
(* in that run with last_job_id = current_job_id - 1 and total_runs one    *)
(* above the value the run found (1 if it found none).  The code does so   *)
(* only when the walk has advanced (current_job_id > start_id); a walk     *)
(* that ends at its first ID writes no cursor.                             *)
(***************************************************************************)
\* total_runs of the cursor file the run found
TotalRunsAtStart ==
    IF state_at_start.kind = "object" THEN state_at_start.total_runs ELSE 0

CursorSavedOnce ==
    /\ cursor_writes = << current_job_id - 1 >>
    /\ HasCursor
    /\ state_file.last_job_id = current_job_id - 1
    /\ state_file.total_runs = TotalRunsAtStart + 1

\* as worded: every such walk persists the cursor
C9_CursorSavedOnQuotaOrMissing ==
    (pc = "returned" /\ stop_reason \in {"quota", "missing"}) => CursorSavedOnce

\* as coded: every such walk that advanced persists the cursor, the others write nothing
C9_CursorSavedWhenAdvanced ==
    (pc = "returned" /\ stop_reason \in {"quota", "missing"}) =>
        IF current_job_id > start_id
        THEN CursorSavedOnce
        ELSE cursor_writes = << >> /\ state_file = state_at_start

C9_Witness ==
    /\ pc = "returned"
    /\ stop_reason = "missing"
    /\ current_job_id > start_id
    /\ state_at_start.kind = "object"
    /\ state_file.total_runs = state_at_start.total_runs + 1
    /\ state_file.last_job_id = current_job_id - 1

(***************************************************************************)
(* C10.  After a run that ended by the failsafe at ID F, the next run over *)
(* the same state files, the site unchanged, fetches F again before it     *)
(* ends, whatever its quota max_jobs >= 1.                                 *)
(* The next run starts below F (at F - 1, or at F - 2 because the cursor   *)
(* was overwritten with F - 1, see C1) and the raw-records file may have   *)
(* lost the IDs below F (see C3): the records it accepts on the way use up *)
(* a small quota before F is reached.  The statement is violated.          *)
(***************************************************************************)
C10_FailsafeIdRefetched ==
    ( /\ pc = "returned"
      /\ prev_failsafe # 0
      /\ ~site_changed
      /\ cwd_raw_file = AbsentRaw
      /\ stop_reason # "login"
      /\ max_jobs >= 1 )
    => prev_failsafe \in FetchedIds

(***************************************************************************)
(* C11.  _is_empty_job returns true for a record exactly when at least two *)
(* of three indicators hold: the title is blank or a placeholder, the      *)
(* company is blank or a placeholder, the description is blank, a          *)
(* placeholder or shorter than 20 characters after trimming.  A record     *)
(* with exactly one indicator is not empty.                                *)
(***************************************************************************)
TitlePlaceholders       == {"unknown", "no title", "unknown title"}
CompanyPlaceholders     == {"unknown", "unknown company", "no company"}
DescriptionPlaceholders == {"no description available", "no description",
                            "unknown description"}

BlankOrPlaceholder(text, placeholders) ==
    strip(text) = "" \/ Lower(text) \in placeholders

IndicatorsTrue(job) ==
    { k \in {"title", "company", "description"} :
        \/ k = "title" /\ BlankOrPlaceholder(job.title, TitlePlaceholders)
        \/ k = "company" /\ BlankOrPlaceholder(job.company, CompanyPlaceholders)
        \/ k = "description"
             /\ \/ BlankOrPlaceholder(job.description, DescriptionPlaceholders)
                \/ Len(strip(job.description)) < 20 }

C11_EmptyIffTwoIndicators ==
    Returned("is_empty_job") =>
        /\ result.bool = (Cardinality(IndicatorsTrue(call.job)) >= 2)
        /\ Cardinality(IndicatorsTrue(call.job)) = 1 => ~result.bool

\* a record whose only indicator is the placeholder title was judged not empty
C11_Witness ==
    /\ Returned("is_empty_job")
    /\ call.job.title = "Unknown"
    /\ IndicatorsTrue(call.job) = {"title"}
    /\ ~result.bool

(***************************************************************************)
(* C12.  is_redirected_to_home is true for a final URL exactly when the    *)
(* URL is the base URL, base + "/", base + "/feed", ends with "/feed",     *)
(* ends with "/", ends with "/jobs", or does not contain "/jobs/"; the URL *)
(* base + "/jobs/" + id is not classified as missing.                      *)
(***************************************************************************)
JobUrl(id) == base_url \o "/jobs/" \o ToString(id)

ClassifiedMissing(url) ==
    \/ url \in {base_url, base_url \o "/", base_url \o "/feed"}
    \/ \E suffix \in {"/feed", "/", "/jobs"} : EndsWith(url, suffix)
    \/ \A i \in 1..(Len(url) - 5) : SubSeq(url, i, i + 5) # "/jobs/"

C12_RedirectClassification ==
    Returned("is_redirected_to_home") =>
        /\ result.bool = ClassifiedMissing(call.url)
        /\ call.url = JobUrl(initial_job_id) => ~result.bool
        /\ call.url \in {base_url \o "/jobs", base_url \o "/jobs/",
                         base_url \o "/login", base_url \o "/jobs/795/"}
              => result.bool

\* the page of job 795 itself was classified as not missing
C12_Witness ==
    /\ Returned("is_redirected_to_home")
    /\ call.url = JobUrl(initial_job_id)
    /\ ~result.bool

(***************************************************************************)
(* C13.  _extract_text_by_selectors returns the trimmed text of the first  *)
(* selector, in the order of the chain, that matches an element whose      *)
(* trimmed text is not empty; selectors that match nothing or only empty   *)
(* text are skipped; when no selector qualifies the default is returned.   *)
(* With three selectors of which only the second matches, the result is    *)
(* the text of the second.                                                 *)
(***************************************************************************)
Qualifying(matches) ==
    { i \in 1..Len(matches) : matches[i].found /\ strip(matches[i].text) # "" }

FirstQualifying(matches) ==
    CHOOSE i \in Qualifying(matches) : \A j \in Qualifying(matches) : i <= j

OnlySecondMatches(matches) ==
    /\ Len(matches) = 3
    /\ matches[1] = NoElement
    /\ matches[2] = Element(" " \o SelectorText(2) \o "  ")
    /\ matches[3] = NoElement

C13_FirstQualifyingSelectorWins ==
    Returned("extract_text_by_selectors") =>
        /\ Qualifying(call.matches) = {} => result.text = call.default
        /\ Qualifying(call.matches) # {} =>
              result.text = strip(call.matches[FirstQualifying(call.matches)].text)
        /\ OnlySecondMatches(call.matches) => result.text = SelectorText(2)

\* on a document matching only the second of three selectors, the text of
\* the second was returned
C13_Witness ==
    /\ Returned("extract_text_by_selectors")
    /\ OnlySecondMatches(call.matches)
    /\ result.text = "text2"
    /\ result.text # call.default

(***************************************************************************)
(* C14.  Every JobPosting the program constructs has a description of at   *)
(* most 1000 characters and requirements of at most 500 characters, also   *)
(* when the texts on the page are longer than the caps; so has every       *)
(* record in the output of the walk and in the raw-records file.           *)
(***************************************************************************)
WithinCaps(job) ==
    /\ Len(job.description) <= 1000
    /\ Len(job.requirements) <= 500

AllWithinCaps(jobs) == \A i \in 1..Len(jobs) : WithinCaps(jobs[i])

C14_FieldCaps ==
    /\ Returned("JobPosting") =>
          /\ WithinCaps(result.job)
          /\ Len(strip(call.page.description)) >= 1000
                => Len(result.job.description) = 1000
          /\ Len(strip(call.page.requirements)) >= 500
                => Len(result.job.requirements) = 500
    /\ AllWithinCaps(jobs_scraped)
    /\ AllWithinCaps(raw_file.jobs)

\* a page whose description and requirements both exceed the caps was
\* turned into a record that holds exactly 1000 and 500 characters of them
C14_Witness ==
    /\ Returned("JobPosting")
    /\ Len(strip(call.page.description)) > 1000
    /\ Len(strip(call.page.requirements)) > 500
    /\ Len(result.job.description) = 1000
    /\ Len(result.job.requirements) = 500

(***************************************************************************)
(* C15.  load_last_job_id returns the persisted last_job_id when the       *)
(* cursor file exists and parses, and the initial ID when the file is      *)
(* absent, unreadable, not valid JSON, not an object, or an object without *)
(* last_job_id; it returns in every one of these cases.                    *)
(***************************************************************************)
FallbackKinds == {"absent", "unreadable", "corrupt", "array", "object_without_id"}

C15_LoadReturnsCursorOrInitial ==
    /\ Returned("load_last_job_id") =>
          /\ call.sf.kind = "object" => result.num = call.sf.last_job_id
          /\ call.sf.kind \in FallbackKinds => result.num = 795
    /\ (call.fn = "load_last_job_id" /\ ~call.done) => ENABLED Apply_load_last_job_id

\* a cursor file holding a JSON array was answered with the initial ID
C15_Witness ==
    /\ Returned("load_last_job_id")
    /\ call.sf = ArrayState
    /\ result.num = 795

(***************************************************************************)
(* C16.  Every save of the cursor writes total_runs one greater than the   *)
(* total_runs the cursor file held before the save, and 1 when there was   *)
(* no cursor to read it from; across a save the persisted total_runs       *)
(* never decreases and never stays the same.                               *)
(***************************************************************************)
\* this step wrote the cursor file
CursorSaveStep == state_file' # state_file /\ state_file'.kind = "object"

PersistedRuns(sf) == IF sf.kind = "object" THEN sf.total_runs ELSE 0

C16_TotalRunsIncrements ==
    [][ CursorSaveStep =>
          /\ state_file'.total_runs = PersistedRuns(state_file) + 1
          /\ state_file'.total_runs > PersistedRuns(state_file)
          /\ Len(cursor_writes') = Len(cursor_writes) + 1 ]_vars

\* the second save of a run that found total_runs = 2 has written 4
C16_Witness ==
    /\ pc = "returned"
    /\ state_at_start.kind = "object"
    /\ state_at_start.total_runs = 2
    /\ Len(cursor_writes) = 2
    /\ state_file.total_runs = 4

(***************************************************************************)
(* C17.  When login fails the walk does not start: scrape_jobs fetches no  *)
(* job page and returns an empty sequence, and the cursor file, the        *)
(* raw-records file, DuplicateSet and current_id are as they were when     *)
(* scrape_jobs was called; the caller writes nothing either.               *)
(***************************************************************************)
LoginFailed == pc = "returned" /\ stop_reason = "login"

C17_LoginFailureStartsNoWalk ==
    /\ [](LoginFailed =>
            /\ fetched = << >>
            /\ jobs_scraped = << >>
            /\ cursor_writes = << >>
            /\ state_file = state_at_start
            /\ current_job_id = StartJobId(load_last_job_id(state_at_start))
            /\ existing_job_ids = load_existing_job_ids(raw_file, cwd_raw_file))
    /\ [][ (pc = "login" /\ pc' = "returned") =>
             /\ LoginFailed'
             /\ UNCHANGED << state_file, raw_file, existing_job_ids,
                             current_job_id, site >> ]_vars
    /\ [][ LoginFailed => UNCHANGED << state_file, raw_file >> ]_vars

\* a login failure of a later run, with a cursor and records on disk
C17_Witness ==
    /\ LoginFailed
    /\ state_file.kind = "object"
    /\ state_file.last_job_id > initial_job_id
    /\ raw_file.exists
    /\ existing_job_ids # {}

(***************************************************************************)
(* C18.  The browsing session is opened once per run and always released:  *)
(* however the run ends (quota, missing ID, failsafe, login failure,       *)
(* exception, interruption) the session that was opened is eventually      *)
(* closed, and no page is fetched unless the session is open.              *)
(***************************************************************************)
InRun == pc \in {"login", "loop", "after_loop", "returned", "raised"}

C18_SessionAlwaysReleased ==
    /\ (driver = "open") ~> (driver = "closed")
    /\ [](InRun <=> driver = "open")
    /\ [][ fetched' # fetched /\ fetched' # << >> =>
             driver = "open" /\ driver' = "open" ]_vars
    /\ [][ driver' # driver =>
             \/ driver' = "open" /\ pc = "idle" /\ pc' = "login"
             \/ driver' = "closed" /\ InRun /\ pc' = "idle" ]_vars

\* a run that was interrupted after fetching a page has ended, session closed
C18_Witness ==
    /\ pc = "idle"
    /\ driver = "closed"
    /\ runs >= 1
    /\ prev_accepted # {}
    /\ state_file = AbsentState

(***************************************************************************)
(* C19.  When a run is aborted by an exception or an interruption after    *)
(* at least one record was accepted, the caller writes the accepted        *)
(* records to the raw-records file before the process exits, whichever of  *)
(* esprit_job_scraper.main and run_scraper.main started the run.           *)
(***************************************************************************)
AbortedExit == pc = "raised" /\ pc' = "idle"

C19_AbortFlushesRecords ==
    [][ (AbortedExit /\ jobs_scraped # << >>) =>
            raw_file' = save_results(jobs_scraped) ]_vars

(***************************************************************************)
(* C20.  A failed write of the cursor file, of the raw-records file or of  *)
(* the feeds does not abort the walk: no such failure leaves scrape_jobs   *)
(* as an exception, so the only exception that ends scrape_jobs is an      *)
(* interruption, and every walk that left its loop reaches the cursor save *)
(* after the loop.                                                         *)
(***************************************************************************)
C20_WriteFailureStaysInsideWalk ==
    pc = "raised" => stop_reason = "interrupt"

(***************************************************************************)
(* C21.  Within one run the IDs navigated to are start_id, start_id + 1,   *)
(* start_id + 2, ... in that order: while the loop runs, every fetch so    *)
(* far returned a job (appended or duplicate), self.current_job_id is one  *)
(* past the last fetched ID, and each of those fetches was followed by the *)
(* time.sleep(1) of the loop body, so that a pause lies between every two  *)
(* consecutive fetches.                                                    *)
(***************************************************************************)
\* the i-th fetch of the run went to start_id + i - 1
FetchedInOrder == \A i \in 1..Len(fetched) : fetched[i] = start_id + i - 1

C21_ConsecutiveIdsWithPause ==
    /\ FetchedInOrder
    /\ pc = "loop" =>
          /\ current_job_id = start_id + Len(fetched)
          /\ pauses = Len(fetched)
    /\ (pc \in {"after_loop", "returned"} /\ fetched # << >>) =>
          /\ pauses >= Len(fetched) - 1
          /\ current_job_id \in {fetched[Len(fetched)], fetched[Len(fetched)] + 1}

\* three fetches in a row, one of them a duplicate, and the loop still runs
C21_Witness ==
    /\ pc = "loop"
    /\ Len(fetched) = 3
    /\ pauses = 3
    /\ Cardinality(AcceptedIds) = 2

(***************************************************************************)
(* Runs against a site that does not change and without --reset.           *)
(***************************************************************************)
NextSameSite ==
    \/ StartMain
    \/ StartRunScraperNoReset
    \/ LoginFails
    \/ LoginSucceeds
    \/ JobIsNone
    \/ JobIsEmptyStop
    \/ JobIsDuplicate
    \/ JobIsAccepted
    \/ QuotaReached
    \/ AfterLoop
    \/ MainReturns
    \/ RunScraperReturns

SpecSameSite == Init /\ [][NextSameSite]_vars

\* the same from a fresh directory, the started run executing step after step
SpecSameSiteFair == InitFresh /\ [][NextSameSite]_vars /\ WF_vars(RunStep)

(***************************************************************************)
(* C22.  Every walk terminates: the site has postings at finitely many     *)
(* IDs, and once scrape_jobs has entered its loop it eventually leaves the *)
(* loop and returns, for every quota from 0 upward and for every content   *)
(* of existing_job_ids, also when every fetched record is a duplicate and  *)
(* the quota is never consumed.                                            *)
(***************************************************************************)
C22_WalkTerminates == (pc = "loop") ~> (pc = "returned")

\* a walk with a positive quota returned after fetching only duplicates
C22_Witness ==
    /\ pc = "returned"
    /\ max_jobs > 0
    /\ scraped_count = 0
    /\ Len(fetched) >= 3
    /\ \A i \in 1..(Len(fetched) - 1) : fetched[i] \in existing_job_ids
    /\ stop_reason = "missing"

(***************************************************************************)
(* C23.  The persisted cursor is monotonic: over any sequence of runs      *)
(* against an unchanged site and without --reset, no write of the cursor   *)
(* file stores a last_job_id lower than the one the file held before the   *)
(* write.                                                                  *)
(* The failsafe writes the failing ID and the save after the loop then     *)
(* writes that ID - 1 over it.                                             *)
(***************************************************************************)
C23_CursorNeverDecreases ==
    [][ (CursorSaveStep /\ HasCursor) =>
          state_file'.last_job_id >= state_file.last_job_id ]_vars

(***************************************************************************)
(* C24.  Resume never skips an ID: of two consecutive runs over the same   *)
(* cursor file, the first ID the second run fetches is less than or equal  *)
(* to the first ID for which the first run obtained no valid record: the   *)
(* missing, empty or failed ID, or the last accepted ID + 1 when the quota *)
(* ended the walk.  That ID is self.current_job_id when the first run      *)
(* ends.  It holds also when the cursor save of the first run failed, and  *)
(* when the first run was interrupted.                                     *)
(***************************************************************************)
\* a run that follows an earlier run has fetched its first ID
ResumedAndFetched == prev_stop_id # 0 /\ fetched # << >>

C24_ResumeNeverSkips == ResumedAndFetched => fetched[1] <= prev_stop_id

\* the earlier run ended above the start of the window and left no readable
\* cursor (its save failed, or it was interrupted before saving)
C24_Witness ==
    /\ ResumedAndFetched
    /\ prev_stop_id > initial_job_id + 1
    /\ state_at_start = CorruptState
    /\ runs = 2

(***************************************************************************)
(* C25.  The raw-records file holds the full array of records: every write *)
(* of the file keeps all records it held before the write, so the set of   *)
(* job_ids in the file never shrinks across runs, and existing_job_ids     *)
(* seeded from it contains every job_id appended by an earlier run.        *)
(* save_results writes only the records of the current run.                *)
(***************************************************************************)
\* a new EspritJobScraper has loaded existing_job_ids
DuplicateSetSeeded == pc = "login"

C25_RawFileKeepsRecords ==
    /\ [][ JobIdsOf(raw_file.jobs) \subseteq JobIdsOf(raw_file'.jobs) ]_vars
    /\ [](DuplicateSetSeeded => prev_accepted \subseteq existing_job_ids)

(***************************************************************************)
(* A site with more postings than the quota of esprit_job_scraper.main:    *)
(* valid pages at every ID from initial_job_id to initial_job_id +         *)
(* MainMaxJobs + 1.  esprit_job_scraper.main runs from a fresh directory.  *)
(***************************************************************************)
LongSiteIds == initial_job_id .. (initial_job_id + MainMaxJobs + 1)

InitLongSite ==
    /\ site = [id \in LongSiteIds |-> GoodPage]
    /\ NoRunYet
    /\ state_file = AbsentState
    /\ cwd_raw_file = AbsentRaw
    /\ call = NoCall
    /\ result = NoResult

NextLongSite ==
    \/ StartMain
    \/ LoginFails
    \/ LoginSucceeds
    \/ JobIsNone
    \/ JobIsDuplicate
    \/ JobIsAccepted
    \/ QuotaReached
    \/ AfterLoop
    \/ MainReturns

SpecLongSite == InitLongSite /\ [][NextLongSite]_vars

(***************************************************************************)
(* C26.  No accepted record is lost behind the cursor: when a run that     *)
(* completed without error ends, through either entry point and whatever   *)
(* ended its walk (quota, missing ID, failsafe), every record appended in  *)
(* that run whose job_id is at most the persisted last_job_id is in the    *)
(* raw-records file.                                                       *)
(* esprit_job_scraper.main does not call save_results after scrape_jobs    *)
(* returns; a walk that the quota ended has saved the cursor only.         *)
(***************************************************************************)
\* scrape_jobs returned and this step ends the run
RunCompletes == pc = "returned" /\ pc' = "idle"

C26_AcceptedBehindCursorSaved ==
    [][ (RunCompletes /\ state_file'.kind = "object") =>
          \A i \in 1..Len(jobs_scraped) :
              jobs_scraped[i].job_id <= state_file'.last_job_id =>
                  jobs_scraped[i].job_id \in JobIdsOf(raw_file'.jobs) ]_vars

====
